---- MODULE Spec2Model ----
(***************************************************************************)
(* The IEEE 1722 Clock Reference Format (CRF) PDU accessors of libavtp,    *)
(* src/avtp_crf.c.                                                         *)
(*                                                                         *)
(* An unsigned C integer is modelled as the set of the positions of its    *)
(* one bits (bit 0 is the least significant): a uint32_t is a subset of    *)
(* 0..31, a uint64_t a subset of 0..63.  AND is intersection, OR is union, *)
(* complement is set difference from the type's positions, a shift moves   *)
(* the positions and drops those that leave the type.  The three members   *)
(* of struct avtp_crf_pdu hold the value the host reads from the member,   *)
(* so the byte order conversions are real permutations of the bytes on a   *)
(* little-endian host and the identity on a big-endian one.                *)
(***************************************************************************)
EXTENDS Integers, FiniteSets, Sequences, TLC

VARIABLES
    littleEndian,  \* byte order of the host the library was built for
    pdu,           \* struct avtp_crf_pdu: subtype_data, stream_id, packet_info
    old,           \* the header as it was when the last call was entered
    op,            \* the last call: "none", "init", "set", "get"
    nullarg,       \* the last call was handed a NULL pdu (or NULL val) pointer
    field,         \* the field argument of the last call
    val,           \* the val argument of the last avtp_crf_pdu_set
    res,           \* the return value of the last call
    out,           \* the caller's uint64_t that avtp_crf_pdu_get writes through val
    calls          \* number of calls made so far

vars == <<littleEndian, pdu, old, op, nullarg, field, val, res, out, calls>>

----------------------------------------------------------------------------
(* Bounds of the model *)

MaxCalls == 2

----------------------------------------------------------------------------
(* Unsigned integers as sets of bit positions *)

W32 == 0..31
W64 == 0..63

\* the uint64_t of a small natural number (n < 2^31)
Bits(n) == {i \in 0..30 : (n \div (2^i)) % 2 = 1}

RECURSIVE ToNat(_)
\* the natural number of an unsigned integer below 2^31
ToNat(S) == IF S = {} THEN 0
            ELSE LET b == CHOOSE x \in S : TRUE IN 2^b + ToNat(S \ {b})

u32(x) == x \cap W32                          \* conversion to uint32_t
Shl(x, s) == {b + s : b \in x} \cap W64       \* x << s on uint64_t
Shr(x, s) == {b - s : b \in {c \in x : c >= s}} \* x >> s

bswap32(x) == {8 * (3 - (b \div 8)) + (b % 8) : b \in x}
bswap64(x) == {8 * (7 - (b \div 8)) + (b % 8) : b \in x}

ntohl(x)   == IF littleEndian THEN bswap32(x) ELSE x
htonl(x)   == IF littleEndian THEN bswap32(x) ELSE x
be64toh(x) == IF littleEndian THEN bswap64(x) ELSE x
htobe64(x) == IF littleEndian THEN bswap64(x) ELSE x

BIT(n) == {n}                                 \* 1ULL << n
BITMASK(len) == 0..(len - 1)                  \* BIT(len) - 1

\* (bitmap & mask) >> shift
BITMAP_GET_VALUE(bitmap, mask, shift) == Shr(bitmap \cap mask, shift)

\* (bitmap & ~mask) | ((val << shift) & mask); ~mask is taken in the type of
\* mask, whose bit positions are W
BITMAP_SET_VALUE(bitmap, v, mask, shift, W) ==
    (bitmap \cap (W \ mask)) \cup (Shl(v, shift) \cap mask)

----------------------------------------------------------------------------
(* Constants of avtp_crf.c and of the headers it includes *)

EINVAL == 22
AVTP_SUBTYPE_CRF == 4
AVTP_CRF_PULL_MULT_BY_1 == 0

\* the two as uint64_t arguments
SUBTYPE_CRF_64 == Bits(AVTP_SUBTYPE_CRF)
PULL_MULT_BY_1_64 == Bits(AVTP_CRF_PULL_MULT_BY_1)
ONE_64 == Bits(1)

SHIFT_SV           == 31 - 8
SHIFT_MR           == 31 - 12
SHIFT_FS           == 31 - 14
SHIFT_TV           == 31 - 15
SHIFT_TU           == 31 - 31
SHIFT_SEQ_NUM      == 31 - 23
\* faulty variant: the shift of BASE_FREQ copied to TYPE
SHIFT_TYPE_bf == 63 - 39
SHIFT_TYPE         == 63 - 31
SHIFT_BASE_FREQ    == 63 - 39
SHIFT_CRF_DATA_LEN == 63 - 15

MASK_SV                 == Shl(BITMASK(1), SHIFT_SV)
MASK_MR                 == Shl(BITMASK(1), SHIFT_MR)
\* faulty variant: the mask of FS built with the shift of TV
MASK_FS_tv == Shl(BITMASK(1), SHIFT_TV)
MASK_FS                 == Shl(BITMASK(1), SHIFT_FS)
MASK_TV                 == Shl(BITMASK(1), SHIFT_TV)
MASK_TU                 == Shl(BITMASK(1), SHIFT_TU)
MASK_SEQ_NUM            == Shl(BITMASK(8), SHIFT_SEQ_NUM)
MASK_TYPE               == Shl(BITMASK(16), SHIFT_TYPE)
MASK_BASE_FREQ          == Shl(BITMASK(8), SHIFT_BASE_FREQ)
MASK_CRF_DATA_LEN       == Shl(BITMASK(16), SHIFT_CRF_DATA_LEN)
MASK_TIMESTAMP_INTERVAL == BITMASK(16)

\* faulty variant: a table with a twelfth rate
base_freq2rate_12 == <<0, 8000, 11025, 16000, 22050, 32000, 44100, 48000,
                       64000, 88200, 96000, 176400>>

base_freq2rate == <<0, 8000, 11025, 16000, 22050, 32000, 44100, 48000,
                    64000, 88200, 96000>>

\* ARRAY_SIZE(base_freq2rate)
ARRAY_SIZE == Len(base_freq2rate)

\* base_freq2rate[i] widened to uint64_t, by C index i
rate64 == [i \in 0..(ARRAY_SIZE - 1) |-> Bits(base_freq2rate[i + 1])]

\* faulty variant: the index stored is one too large
index64_off == [i \in 0..(ARRAY_SIZE - 1) |-> Bits(i + 1)]

\* the uint64_t of every index of base_freq2rate
index64 == [i \in 0..(ARRAY_SIZE - 1) |-> Bits(i)]

\* enum avtp_crf_field; MAX stands for every value the switches do not name
Fields == {"SV", "MR", "FS", "TV", "TU", "SEQ_NUM", "TYPE", "BASE_FREQ",
           "PULL", "CRF_DATA_LEN", "TIMESTAMP_INTERVAL", "STREAM_ID", "MAX"}

NULL == [null |-> TRUE]       \* a NULL struct avtp_crf_pdu pointer
NULLVAL == {-1}               \* a NULL uint64_t pointer

----------------------------------------------------------------------------
(* The accessors.  An accessor that writes returns the new header with its  *)
(* return value; the getter returns the new content of *val with its.       *)

get_field_value(p, f, v0) ==
    IF f = "PULL" THEN [res |-> 0, val |-> PULL_MULT_BY_1_64]
    ELSE IF f \notin {"SV", "MR", "FS", "TU", "SEQ_NUM", "TYPE", "BASE_FREQ",
                      "CRF_DATA_LEN", "TIMESTAMP_INTERVAL"}
    THEN [res |-> -EINVAL, val |-> v0]
    ELSE
    LET mask == CASE f = "SV" -> MASK_SV
                  [] f = "MR" -> MASK_MR
                  [] f = "FS" -> MASK_FS
                  [] f = "TU" -> MASK_TU
                  [] f = "SEQ_NUM" -> MASK_SEQ_NUM
                  [] f = "TYPE" -> MASK_TYPE
                  [] f = "BASE_FREQ" -> MASK_BASE_FREQ
                  [] f = "CRF_DATA_LEN" -> MASK_CRF_DATA_LEN
                  [] f = "TIMESTAMP_INTERVAL" -> MASK_TIMESTAMP_INTERVAL
        shift == CASE f = "SV" -> SHIFT_SV
                   [] f = "MR" -> SHIFT_MR
                   [] f = "FS" -> SHIFT_FS
                   [] f = "TU" -> SHIFT_TU
                   [] f = "SEQ_NUM" -> SHIFT_SEQ_NUM
                   [] f = "TYPE" -> SHIFT_TYPE
                   [] f = "BASE_FREQ" -> SHIFT_BASE_FREQ
                   [] f = "CRF_DATA_LEN" -> SHIFT_CRF_DATA_LEN
                   [] f = "TIMESTAMP_INTERVAL" -> 0
        \* ntohl() takes a uint32_t: the 64-bit packet_info is converted to
        \* 32 bits on the way in
        bitmap == CASE f \in {"SV", "MR", "FS", "TU", "SEQ_NUM"} ->
                         ntohl(p.subtype_data)
                    [] f = "TYPE" -> ntohl(u32(p.packet_info))
                    [] OTHER -> be64toh(p.packet_info)
        v == BITMAP_GET_VALUE(bitmap, mask, shift)
    IN  IF f = "BASE_FREQ"
        THEN IF ToNat(v) >= ARRAY_SIZE
             THEN [res |-> -EINVAL, val |-> v]
             ELSE [res |-> 0, val |-> rate64[ToNat(v)]]
        ELSE [res |-> 0, val |-> v]

\* faulty variant: STREAM_ID is handed out as it lies in the structure
avtp_crf_pdu_get_rawid(p, f, v0) ==
    IF p = NULL \/ v0 = NULLVAL THEN [res |-> -EINVAL, val |-> v0]
    ELSE IF f \in {"SV", "MR", "FS", "TU", "SEQ_NUM", "TYPE", "PULL",
                   "BASE_FREQ", "CRF_DATA_LEN", "TIMESTAMP_INTERVAL"}
    THEN get_field_value(p, f, v0)
    ELSE IF f = "STREAM_ID"
    THEN [res |-> 0, val |-> p.stream_id]
    ELSE [res |-> -EINVAL, val |-> v0]

avtp_crf_pdu_get(p, f, v0) ==
    IF p = NULL \/ v0 = NULLVAL THEN [res |-> -EINVAL, val |-> v0]
    ELSE IF f \in {"SV", "MR", "FS", "TU", "SEQ_NUM", "TYPE", "PULL",
                   "BASE_FREQ", "CRF_DATA_LEN", "TIMESTAMP_INTERVAL"}
    THEN get_field_value(p, f, v0)
    ELSE IF f = "STREAM_ID"
    THEN [res |-> 0, val |-> be64toh(p.stream_id)]
    ELSE [res |-> -EINVAL, val |-> v0]

set_field_value_32(p, f, v) ==
    IF f \notin {"SV", "MR", "FS", "TV", "TU", "SEQ_NUM"}
    THEN [res |-> -EINVAL, pdu |-> p]
    ELSE
    LET mask == u32(CASE f = "SV" -> MASK_SV
                      [] f = "MR" -> MASK_MR
                      [] f = "FS" -> MASK_FS
                      [] f = "TV" -> MASK_TV
                      [] f = "TU" -> MASK_TU
                      [] f = "SEQ_NUM" -> MASK_SEQ_NUM)
        shift == CASE f = "SV" -> SHIFT_SV
                   [] f = "MR" -> SHIFT_MR
                   [] f = "FS" -> SHIFT_FS
                   [] f = "TV" -> SHIFT_TV
                   [] f = "TU" -> SHIFT_TU
                   [] f = "SEQ_NUM" -> SHIFT_SEQ_NUM
        bitmap == ntohl(p.subtype_data)
        bitmap2 == u32(BITMAP_SET_VALUE(bitmap, v, mask, shift, W32))
    IN  [res |-> 0, pdu |-> [p EXCEPT !.subtype_data = htonl(bitmap2)]]

\* faulty variant: the word is written before a rate that is no table entry is refused
set_field_value_64_late(p, f, v) ==
    IF f = "PULL"
    THEN [res |-> IF v = PULL_MULT_BY_1_64 THEN 0 ELSE -EINVAL,
          pdu |-> p]
    ELSE IF f \notin {"TYPE", "BASE_FREQ", "CRF_DATA_LEN", "TIMESTAMP_INTERVAL"}
    THEN [res |-> -EINVAL, pdu |-> p]
    ELSE
    LET hits == {i \in 0..(ARRAY_SIZE - 1) : rate64[i] = v}
        found == f = "BASE_FREQ" /\ hits # {}
        v2 == IF found
              THEN index64[CHOOSE i \in hits : \A j \in hits : i <= j]
              ELSE v
        mask == CASE f = "TYPE" -> MASK_TYPE
                  [] f = "BASE_FREQ" -> MASK_BASE_FREQ
                  [] f = "CRF_DATA_LEN" -> MASK_CRF_DATA_LEN
                  [] f = "TIMESTAMP_INTERVAL" -> MASK_TIMESTAMP_INTERVAL
        shift == CASE f = "TYPE" -> SHIFT_TYPE
                   [] f = "BASE_FREQ" -> SHIFT_BASE_FREQ
                   [] f = "CRF_DATA_LEN" -> SHIFT_CRF_DATA_LEN
                   [] f = "TIMESTAMP_INTERVAL" -> 0
        bitmap == be64toh(p.packet_info)
        bitmap2 == BITMAP_SET_VALUE(bitmap, v2, mask, shift, W64)
    IN  [res |-> IF f = "BASE_FREQ" /\ ~found THEN -EINVAL ELSE 0,
         pdu |-> [p EXCEPT !.packet_info = htobe64(bitmap2)]]

set_field_value_64(p, f, v) ==
    IF f = "PULL"
    THEN [res |-> IF v = PULL_MULT_BY_1_64 THEN 0 ELSE -EINVAL,
          pdu |-> p]
    ELSE IF f \notin {"TYPE", "BASE_FREQ", "CRF_DATA_LEN", "TIMESTAMP_INTERVAL"}
    THEN [res |-> -EINVAL, pdu |-> p]
    ELSE
    LET hits == {i \in 0..(ARRAY_SIZE - 1) : rate64[i] = v}
        found == f = "BASE_FREQ" /\ hits # {}
        \* the loop stops at the first index whose rate equals val
        v2 == IF found
              THEN index64[CHOOSE i \in hits : \A j \in hits : i <= j]
              ELSE v
        mask == CASE f = "TYPE" -> MASK_TYPE
                  [] f = "BASE_FREQ" -> MASK_BASE_FREQ
                  [] f = "CRF_DATA_LEN" -> MASK_CRF_DATA_LEN
                  [] f = "TIMESTAMP_INTERVAL" -> MASK_TIMESTAMP_INTERVAL
        shift == CASE f = "TYPE" -> SHIFT_TYPE
                   [] f = "BASE_FREQ" -> SHIFT_BASE_FREQ
                   [] f = "CRF_DATA_LEN" -> SHIFT_CRF_DATA_LEN
                   [] f = "TIMESTAMP_INTERVAL" -> 0
        bitmap == be64toh(p.packet_info)
        bitmap2 == BITMAP_SET_VALUE(bitmap, v2, mask, shift, W64)
    IN  IF f = "BASE_FREQ" /\ ~found
        THEN [res |-> -EINVAL, pdu |-> p]
        ELSE [res |-> 0, pdu |-> [p EXCEPT !.packet_info = htobe64(bitmap2)]]

\* faulty variant: PULL is dispatched with the flags of the 32-bit word
avtp_crf_pdu_set_pull32(p, f, v) ==
    IF p = NULL THEN [res |-> -EINVAL, pdu |-> p]
    ELSE IF f \in {"SV", "MR", "FS", "TV", "TU", "SEQ_NUM", "PULL"}
    THEN set_field_value_32(p, f, v)
    ELSE IF f \in {"TYPE", "BASE_FREQ", "CRF_DATA_LEN", "TIMESTAMP_INTERVAL"}
    THEN set_field_value_64(p, f, v)
    ELSE IF f = "STREAM_ID"
    THEN [res |-> 0, pdu |-> [p EXCEPT !.stream_id = htobe64(v)]]
    ELSE [res |-> -EINVAL, pdu |-> p]

\* faulty variant: a value wider than a flag or than SEQ_NUM is refused
avtp_crf_pdu_set_checked(p, f, v) ==
    IF p = NULL THEN [res |-> -EINVAL, pdu |-> p]
    ELSE IF f \in {"SV", "MR", "FS", "TV", "TU", "SEQ_NUM"}
    THEN IF v \subseteq BITMASK(IF f = "SEQ_NUM" THEN 8 ELSE 1)
         THEN set_field_value_32(p, f, v)
         ELSE [res |-> -EINVAL, pdu |-> p]
    ELSE IF f \in {"TYPE", "PULL", "BASE_FREQ", "CRF_DATA_LEN",
                   "TIMESTAMP_INTERVAL"}
    THEN set_field_value_64(p, f, v)
    ELSE IF f = "STREAM_ID"
    THEN [res |-> 0, pdu |-> [p EXCEPT !.stream_id = htobe64(v)]]
    ELSE [res |-> -EINVAL, pdu |-> p]

avtp_crf_pdu_set(p, f, v) ==
    IF p = NULL THEN [res |-> -EINVAL, pdu |-> p]
    ELSE IF f \in {"SV", "MR", "FS", "TV", "TU", "SEQ_NUM"}
    THEN set_field_value_32(p, f, v)
    ELSE IF f \in {"TYPE", "PULL", "BASE_FREQ", "CRF_DATA_LEN",
                   "TIMESTAMP_INTERVAL"}
    THEN set_field_value_64(p, f, v)
    ELSE IF f = "STREAM_ID"
    THEN [res |-> 0, pdu |-> [p EXCEPT !.stream_id = htobe64(v)]]
    ELSE [res |-> -EINVAL, pdu |-> p]

\* avtp_pdu_set(pdu, AVTP_FIELD_SUBTYPE, v) of the common header: the subtype
\* tag is the first octet of the PDU, bits 31..24 of subtype_data
avtp_pdu_set_subtype(p, v) ==
    LET mask == u32(Shl(BITMASK(8), 24))
        bitmap == ntohl(p.subtype_data)
        bitmap2 == u32(BITMAP_SET_VALUE(bitmap, v, mask, 24, W32))
    IN  [res |-> 0, pdu |-> [p EXCEPT !.subtype_data = htonl(bitmap2)]]

\* memset(pdu, 0, sizeof(struct avtp_crf_pdu))
memset0 == [subtype_data |-> {}, stream_id |-> {}, packet_info |-> {}]

\* faulty variant: TV is left as memset made it
avtp_crf_pdu_init_notv(p) ==
    IF p = NULL THEN [res |-> -EINVAL, pdu |-> p]
    ELSE
    LET r1 == avtp_pdu_set_subtype(memset0, SUBTYPE_CRF_64)
        r2 == avtp_crf_pdu_set(r1.pdu, "SV", ONE_64)
    IN  IF r1.res < 0 THEN r1
        ELSE IF r2.res < 0 THEN r2
        ELSE [res |-> 0, pdu |-> r2.pdu]

avtp_crf_pdu_init(p) ==
    IF p = NULL THEN [res |-> -EINVAL, pdu |-> p]
    ELSE
    LET r1 == avtp_pdu_set_subtype(memset0, SUBTYPE_CRF_64)
        r2 == avtp_crf_pdu_set(r1.pdu, "SV", ONE_64)
        r3 == avtp_crf_pdu_set(r2.pdu, "TV", ONE_64)
    IN  IF r1.res < 0 THEN r1
        ELSE IF r2.res < 0 THEN r2
        ELSE IF r3.res < 0 THEN r3
        ELSE [res |-> 0, pdu |-> r3.pdu]

----------------------------------------------------------------------------
(* Inputs *)

AllOnes64 == W64

\* the width in bits of what avtp_crf_pdu_set stores for a field (0: nothing)
Width(f) == CASE f \in {"SV", "MR", "FS", "TV", "TU"} -> 1
              [] f \in {"SEQ_NUM", "BASE_FREQ"} -> 8
              [] f \in {"TYPE", "CRF_DATA_LEN", "TIMESTAMP_INTERVAL"} -> 16
              [] f = "STREAM_ID" -> 64
              [] OTHER -> 0

\* values handed to avtp_crf_pdu_set for every field: the smallest two and
\* the one with all 64 bits set
CommonValues == {Bits(0), Bits(1), AllOnes64}

Rates == {rate64[i] : i \in DOMAIN rate64}

\* per field: also the largest value of its width and the first one beyond
\* it; for SEQ_NUM a value in between; for BASE_FREQ every table rate and a
\* rate that is none; for STREAM_ID a value with high bits
InputsFor ==
    [f \in Fields |->
        CommonValues \cup
        CASE f = "BASE_FREQ" -> Rates \cup {Bits(99999)}
          [] f = "STREAM_ID" -> {Shl(Bits(43981), 44)}
          [] f = "SEQ_NUM" -> {BITMASK(8), BIT(8), Bits(200)}
          [] Width(f) \in {1, 16} -> {BITMASK(Width(f)), BIT(Width(f))}
          [] OTHER -> {}]

\* a call with a NULL pointer returns before it looks at the field or the
\* value: one field and one value stand for all of them
FieldsFor(p, vp) == IF p = NULL \/ vp = NULLVAL THEN {"SV"} ELSE Fields
NullValues == {Bits(1)}
ValuesFor(p, f) == IF p = NULL THEN NullValues ELSE InputsFor[f]

\* what the caller's buffer may hold before the first call, as the three
\* words in wire order (stream_id, word A, word B)
WirePatterns ==
    { <<W64, W32, W64>>,
      <<Bits(43981), Bits(10640897), Shl(Bits(11), SHIFT_BASE_FREQ)>>,
      <<Shl(Bits(43981), 40), W32 \ MASK_SEQ_NUM,
        W64 \ Shl(Bits(245), SHIFT_BASE_FREQ)>> }

HeaderOf(w, le) ==
    [stream_id    |-> IF le THEN bswap64(w[1]) ELSE w[1],
     subtype_data |-> IF le THEN bswap32(w[2]) ELSE w[2],
     packet_info  |-> IF le THEN bswap64(w[3]) ELSE w[3]]

----------------------------------------------------------------------------
(* The state machine: one caller working on one header *)

Init ==
    /\ littleEndian \in BOOLEAN
    /\ pdu \in {HeaderOf(w, littleEndian) : w \in WirePatterns}
    /\ old = pdu
    /\ op = "none"
    /\ nullarg = FALSE
    /\ field = "MAX"
    /\ val = {}
    /\ res = 0
    /\ out = {}
    /\ calls = 0

DoInit ==
    /\ calls < MaxCalls
    /\ \E p \in {pdu, NULL} :
         \E r \in {avtp_crf_pdu_init(p)} :
         /\ pdu' = IF p = NULL THEN pdu ELSE r.pdu
         /\ nullarg' = (p = NULL)
         /\ res' = r.res
    /\ old' = pdu
    /\ op' = "init"
    /\ field' = "MAX"
    /\ val' = {}
    /\ calls' = calls + 1
    /\ UNCHANGED <<littleEndian, out>>

DoSet ==
    /\ calls < MaxCalls
    /\ \E p \in {pdu, NULL} :
         \E f \in FieldsFor(p, out) :
         \E v \in ValuesFor(p, f) :
           \E r \in {avtp_crf_pdu_set(p, f, v)} :
           /\ pdu' = IF p = NULL THEN pdu ELSE r.pdu
           /\ nullarg' = (p = NULL)
           /\ field' = f
           /\ val' = v
           /\ res' = r.res
    /\ old' = pdu
    /\ op' = "set"
    /\ calls' = calls + 1
    /\ UNCHANGED <<littleEndian, out>>

DoGet ==
    /\ calls < MaxCalls
    /\ \E p \in {pdu, NULL}, vp \in {out, NULLVAL} :
         \E f \in FieldsFor(p, vp) :
         \E r \in {avtp_crf_pdu_get(p, f, vp)} :
         /\ out' = IF vp = NULLVAL THEN out ELSE r.val
         /\ nullarg' = (p = NULL \/ vp = NULLVAL)
         /\ field' = f
         /\ res' = r.res
    /\ old' = pdu
    /\ op' = "get"
    /\ val' = {}
    /\ calls' = calls + 1
    /\ UNCHANGED <<littleEndian, pdu>>

Next == DoInit \/ DoSet \/ DoGet

Spec == Init /\ [][Next]_vars

\* the caller has run avtp_crf_pdu_init on its buffer before anything else
InitAfterInit ==
    /\ littleEndian \in BOOLEAN
    /\ pdu \in {avtp_crf_pdu_init(HeaderOf(w, littleEndian)).pdu :
                  w \in WirePatterns}
    /\ old = pdu
    /\ op = "init"
    /\ nullarg = FALSE
    /\ field = "MAX"
    /\ val = {}
    /\ res = 0
    /\ out = {}
    /\ calls = 0

SpecInit == InitAfterInit /\ [][Next]_vars

----------------------------------------------------------------------------
(* The header as it goes on the wire: the big-endian value of each word,   *)
(* and the bit ranges of the fields in it.                                 *)

WireA(h) == IF littleEndian THEN bswap32(h.subtype_data) ELSE h.subtype_data
WireB(h) == IF littleEndian THEN bswap64(h.packet_info) ELSE h.packet_info
WireS(h) == IF littleEndian THEN bswap64(h.stream_id) ELSE h.stream_id

\* the word a field lives in: "A" subtype_data, "B" packet_info, "S" stream_id
WordOf == [f \in Fields |->
             CASE f \in {"SV", "MR", "FS", "TV", "TU", "SEQ_NUM"} -> "A"
               [] f \in {"TYPE", "BASE_FREQ", "CRF_DATA_LEN",
                         "TIMESTAMP_INTERVAL"} -> "B"
               [] f = "STREAM_ID" -> "S"
               [] OTHER -> "none"]

\* the bits of its word a field occupies
RangeOf == [f \in Fields |->
              CASE f = "SV" -> {23}
                [] f = "MR" -> {19}
                [] f = "FS" -> {17}
                [] f = "TV" -> {16}
                [] f = "SEQ_NUM" -> 8..15
                [] f = "TU" -> {0}
                [] f = "CRF_DATA_LEN" -> 48..63
                [] f = "TYPE" -> 32..47
                [] f = "BASE_FREQ" -> 24..31
                [] f = "TIMESTAMP_INTERVAL" -> 0..15
                [] f = "STREAM_ID" -> W64
                [] OTHER -> {}]

LowBit(f) == CHOOSE b \in RangeOf[f] : \A c \in RangeOf[f] : b <= c

WordOfHeader(h, w) == CASE w = "A" -> WireA(h)
                        [] w = "B" -> WireB(h)
                        [] w = "S" -> WireS(h)
                        [] OTHER -> {}

\* the raw content of field f in header h, as an unsigned integer
Raw(h, f) == Shr(WordOfHeader(h, WordOf[f]) \cap RangeOf[f], LowBit(f))

\* the subtype tag of the common header: the first octet of the PDU
SubtypeTag(h) == Shr(WireA(h) \cap (24..31), 24)

\* v fits the width of field f
InRange(f, v) == v \subseteq BITMASK(Width(f))

\* a content of the caller's uint64_t that is not v
Not(v) == W64 \ v

\* the last call was avtp_crf_pdu_set on the header, for field f
DidSet(f) == op = "set" /\ ~nullarg /\ field = f

GetFields == {"SV", "MR", "FS", "TU", "SEQ_NUM", "TYPE", "PULL", "BASE_FREQ",
              "CRF_DATA_LEN", "TIMESTAMP_INTERVAL", "STREAM_ID"}

PackedFields == {"SV", "MR", "FS", "TV", "TU", "SEQ_NUM", "TYPE",
                 "CRF_DATA_LEN", "TIMESTAMP_INTERVAL"}

\* the table of the specification, code -> Hz
TableHz == [c \in 0..10 |->
              CASE c = 0 -> 0      [] c = 1 -> 8000   [] c = 2 -> 11025
                [] c = 3 -> 16000  [] c = 4 -> 22050  [] c = 5 -> 32000
                [] c = 6 -> 44100  [] c = 7 -> 48000  [] c = 8 -> 64000
                [] c = 9 -> 88200  [] c = 10 -> 96000]

TableHz64 == [c \in 0..10 |-> Bits(TableHz[c])]

----------------------------------------------------------------------------
(* C1: round trip.  After avtp_crf_pdu_set(pdu, f, v) for f one of SV, MR, *)
(* FS, TU, SEQ_NUM, CRF_DATA_LEN, TIMESTAMP_INTERVAL, STREAM_ID and v      *)
(* within the width of f, whatever the header held before, the call has    *)
(* returned 0 and avtp_crf_pdu_get(pdu, f) returns 0 with exactly v.       *)
RoundTripFields == {"SV", "MR", "FS", "TU", "SEQ_NUM", "CRF_DATA_LEN",
                    "TIMESTAMP_INTERVAL", "STREAM_ID"}

C1_RoundTrip ==
    (op = "set" /\ ~nullarg /\ field \in RoundTripFields /\ InRange(field, val))
    => /\ res = 0
       /\ avtp_crf_pdu_get(pdu, field, Not(val)) = [res |-> 0, val |-> val]

\* SEQ_NUM set to 200 on a header that held another sequence number
C1_Witness ==
    /\ DidSet("SEQ_NUM") /\ val = Bits(200) /\ res = 0
    /\ Raw(old, "SEQ_NUM") # val
    /\ WireA(old) # {}

(* C2: round trip for TYPE.  After avtp_crf_pdu_set(pdu, TYPE, v) with v   *)
(* in 0..65535 the call has returned 0 and avtp_crf_pdu_get(pdu, TYPE)     *)
(* returns 0 with exactly v.                                               *)
C2_RoundTripType ==
    (DidSet("TYPE") /\ InRange("TYPE", val))
    => /\ res = 0
       /\ avtp_crf_pdu_get(pdu, "TYPE", Not(val)) = [res |-> 0, val |-> val]

(* C3: base frequency round trip.  After avtp_crf_pdu_set(pdu, BASE_FREQ,  *)
(* hz) for hz one of the 11 table rates the call has returned 0, bits      *)
(* 31..24 of word B hold the table index of hz, and                        *)
(* avtp_crf_pdu_get(pdu, BASE_FREQ) returns 0 with hz.                     *)
C3_BaseFreqRoundTrip ==
    \A c \in 0..10 :
      (DidSet("BASE_FREQ") /\ val = TableHz64[c])
      => /\ res = 0
         /\ Raw(pdu, "BASE_FREQ") = Bits(c)
         /\ avtp_crf_pdu_get(pdu, "BASE_FREQ", Not(val))
              = [res |-> 0, val |-> val]

\* 48000 Hz stored as code 7 over another code
C3_Witness ==
    /\ DidSet("BASE_FREQ") /\ val = Bits(48000) /\ res = 0
    /\ Raw(pdu, "BASE_FREQ") = Bits(7)
    /\ Raw(old, "BASE_FREQ") # Bits(7)

(* C4: all or nothing.  Whenever avtp_crf_pdu_set returns an error, the    *)
(* three words of the header are what they were before the call.           *)
C4_AllOrNothing ==
    (op = "set" /\ res # 0) => pdu = old

\* BASE_FREQ with 99999 Hz is refused on a header that is not all zero
C4_Witness ==
    /\ DidSet("BASE_FREQ") /\ val = Bits(99999) /\ res = -EINVAL
    /\ WireB(old) # {}

(* C5 as claimed: avtp_crf_pdu_set of a bit-packed field with a value of   *)
(* 2^width or more returns an error and leaves the header unchanged.       *)
C5_OutOfRangeRejected ==
    (op = "set" /\ ~nullarg /\ field \in PackedFields /\ ~InRange(field, val))
    => (res = -EINVAL /\ pdu = old)

(* C5 as amended: avtp_crf_pdu_set of a bit-packed field with a value of   *)
(* 2^width or more returns 0 and stores the low width bits of the value in *)
(* the field; the bits of the header outside the field stay as they were.  *)
C5_OutOfRangeTruncated ==
    (op = "set" /\ ~nullarg /\ field \in PackedFields /\ ~InRange(field, val))
    => /\ res = 0
       /\ Raw(pdu, field) = val \cap BITMASK(Width(field))
       /\ \A w \in {"A", "B", "S"} :
            WordOfHeader(pdu, w) \ (IF w = WordOf[field] THEN RangeOf[field] ELSE {})
            = WordOfHeader(old, w) \ (IF w = WordOf[field] THEN RangeOf[field] ELSE {})

\* SEQ_NUM set to 256 stores 0 over a sequence number that was not 0
C5_Witness ==
    /\ DidSet("SEQ_NUM") /\ val = Bits(256) /\ res = 0
    /\ Raw(old, "SEQ_NUM") # {}
    /\ Raw(pdu, "SEQ_NUM") = {}

(* C6: field isolation.  After avtp_crf_pdu_set(pdu, F, v) for any field F *)
(* and any value v, every bit of F's word outside F's range and the other  *)
(* two words are unchanged, and so are the decoded value of every other    *)
(* field, the TV bit and the subtype tag.  The masks are the ranges SV 23, *)
(* MR 19, FS 17, TV 16, SEQ_NUM 15..8, TU 0 of word A and CRF_DATA_LEN     *)
(* 63..48, TYPE 47..32, BASE_FREQ 31..24, TIMESTAMP_INTERVAL 15..0 of word *)
(* B, pairwise disjoint within a word.                                     *)
MaskOf == [f \in PackedFields \cup {"BASE_FREQ"} |->
             CASE f = "SV" -> MASK_SV
               [] f = "MR" -> MASK_MR
               [] f = "FS" -> MASK_FS
               [] f = "TV" -> MASK_TV
               [] f = "TU" -> MASK_TU
               [] f = "SEQ_NUM" -> MASK_SEQ_NUM
               [] f = "TYPE" -> MASK_TYPE
               [] f = "BASE_FREQ" -> MASK_BASE_FREQ
               [] f = "CRF_DATA_LEN" -> MASK_CRF_DATA_LEN
               [] f = "TIMESTAMP_INTERVAL" -> MASK_TIMESTAMP_INTERVAL]

MasksAsClaimed ==
    /\ \A f \in DOMAIN MaskOf : MaskOf[f] = RangeOf[f]
    /\ \A f, g \in DOMAIN MaskOf :
         (f # g /\ WordOf[f] = WordOf[g]) => MaskOf[f] \cap MaskOf[g] = {}

C6_FieldIsolation ==
    /\ MasksAsClaimed
    /\ (op = "set" /\ ~nullarg)
       => /\ \A w \in {"A", "B", "S"} :
               WordOfHeader(pdu, w) \ (IF w = WordOf[field] THEN RangeOf[field] ELSE {})
               = WordOfHeader(old, w) \ (IF w = WordOf[field] THEN RangeOf[field] ELSE {})
          /\ \A g \in GetFields \ {field} :
               avtp_crf_pdu_get(pdu, g, {}) = avtp_crf_pdu_get(old, g, {})
          /\ field # "TV" => Raw(pdu, "TV") = Raw(old, "TV")
          /\ SubtypeTag(pdu) = SubtypeTag(old)

\* SEQ_NUM set to a value with all 64 bits on, between two bits that are off
C6_Witness ==
    /\ DidSet("SEQ_NUM") /\ val = AllOnes64 /\ res = 0
    /\ Raw(old, "SEQ_NUM") # Bits(255)
    /\ Raw(pdu, "SEQ_NUM") = Bits(255)
    /\ Raw(pdu, "TV") = {} /\ 7 \notin WireA(pdu)

(* C7: decode rejection.  avtp_crf_pdu_get(pdu, BASE_FREQ) on a header     *)
(* whose bits 31..24 of word B hold 11..255 returns an error, whatever the *)
(* other bits; on one that holds 0..10 it returns 0 with the table rate.   *)
C7_DecodeRejection ==
    (op = "get" /\ ~nullarg /\ field = "BASE_FREQ")
    => LET code == ToNat(Raw(old, "BASE_FREQ"))
       IN  IF code >= 11
           THEN res = -EINVAL /\ out \notin {TableHz64[c] : c \in 0..10}
           ELSE res = 0 /\ out = TableHz64[code]

\* code 11 is refused
C7_Witness ==
    /\ op = "get" /\ ~nullarg /\ field = "BASE_FREQ"
    /\ Raw(old, "BASE_FREQ") = Bits(11)
    /\ res = -EINVAL

(* C8: PULL is virtual and fixed.  In every state avtp_crf_pdu_get(pdu,    *)
(* PULL) returns 0 with the multiply-by-1 constant; avtp_crf_pdu_set(pdu,  *)
(* PULL, v) returns 0 exactly if v is that constant, and changes no bit of *)
(* the header either way.                                                  *)
C8_PullFixed ==
    /\ avtp_crf_pdu_get(pdu, "PULL", Not(PULL_MULT_BY_1_64))
         = [res |-> 0, val |-> PULL_MULT_BY_1_64]
    /\ (op = "get" /\ ~nullarg /\ field = "PULL")
       => (res = 0 /\ out = PULL_MULT_BY_1_64)
    /\ DidSet("PULL")
       => /\ (res = 0) <=> (val = PULL_MULT_BY_1_64)
          /\ pdu = old

\* PULL set to the constant is accepted, after an earlier call, on a header
\* that is not all zero
C8_Witness ==
    /\ DidSet("PULL") /\ val = PULL_MULT_BY_1_64 /\ res = 0
    /\ calls = 2
    /\ WireB(pdu) # {}

(* C9: initialization.  After a successful avtp_crf_pdu_init, whatever the *)
(* header held before, the subtype tag is CRF, get(SV) returns 1, the TV   *)
(* bit is 1, and every other field decodes to 0 without error; it is the   *)
(* same header at every call.                                              *)
C9_Init ==
    (op = "init" /\ res = 0)
    => /\ SubtypeTag(pdu) = SUBTYPE_CRF_64
       /\ avtp_crf_pdu_get(pdu, "SV", {}) = [res |-> 0, val |-> ONE_64]
       /\ Raw(pdu, "TV") = ONE_64
       /\ \A f \in {"MR", "FS", "TU", "SEQ_NUM", "TYPE", "CRF_DATA_LEN",
                    "TIMESTAMP_INTERVAL", "STREAM_ID", "BASE_FREQ"} :
            /\ avtp_crf_pdu_get(pdu, f, AllOnes64) = [res |-> 0, val |-> {}]
            /\ Raw(pdu, f) = {}
       /\ WireS(pdu) = {}
       /\ WireB(pdu) = {}
       /\ WireA(pdu) = {26, 23, 16}

\* the second call is an init of a header that held something else
C9_Witness ==
    /\ op = "init" /\ res = 0 /\ ~nullarg
    /\ calls = 2
    /\ WireB(old) # {} /\ WireS(old) # {}

(* C10: reachable states.  From a header produced by avtp_crf_pdu_init,    *)
(* after any calls of set, get and init, bits 31..24 of word B hold 0..10  *)
(* and avtp_crf_pdu_get(pdu, BASE_FREQ) returns no error; a get changes no *)
(* bit of the header.                                                      *)
C10_CodeStaysValid ==
    /\ Raw(pdu, "BASE_FREQ") \in {Bits(c) : c \in 0..10}
    /\ avtp_crf_pdu_get(pdu, "BASE_FREQ", {}).res = 0
    /\ op = "get" => pdu = old

\* a rate was stored, then a value too wide for TYPE was set next to it
C10_Witness ==
    /\ calls = 2
    /\ DidSet("TYPE") /\ val = AllOnes64 /\ res = 0
    /\ Raw(pdu, "BASE_FREQ") = Bits(10)

====
